---- MODULE Spec2Model ----
(***************************************************************************)
(* Model of sktime/utils/validation/series_as_features.py: the validators  *)
(* check_X, check_y, check_X_y and the helper _enforce_min_instances.      *)
(*                                                                         *)
(* Values are records with a "kind" field:                                 *)
(*   ndarray   [kind, shape, data]   data is nested sequences, one level   *)
(*                                   per axis (a rank-0 array holds a      *)
(*                                   bare value)                           *)
(*   DataFrame [kind, shape, data]   shape = <<rows, columns>>, data[i][j] *)
(*                                   is a cell: [cell |-> "scalar", v] or  *)
(*                                   [cell |-> "series", v |-> sequence]   *)
(*   Series    [kind, shape, index, data]                                  *)
(*   list      [kind, data]          a plain Python list: no shape         *)
(* Every ValueError raised by the module is recorded by the place that     *)
(* raises it (err), with the sequence of checks that ran (steps).          *)
(***************************************************************************)
EXTENDS Integers, Sequences, FiniteSets, TLC

VARIABLES pc, fn, X, y, opts, result

vars == <<pc, fn, X, y, opts, result>>

\* ------------------------------------------------------------------ bounds
MaxDim == 2      \* largest length of any axis of an input
MaxRank == 4     \* largest rank of a dense input

\* ------------------------------------------------------------- input data
RECURSIVE Fill(_, _)
\* nested sequences of the given shape; every leaf is the decimal code of
\* its own position, so that no two entries of an array are equal
Fill(shape, code) ==
    IF shape = <<>> THEN code
    ELSE [i \in 1..Head(shape) |-> Fill(Tail(shape), code * 10 + i)]

NdArray(shape) == [kind |-> "ndarray", shape |-> shape, data |-> Fill(shape, 0)]

\* dense inputs: every rank 0..MaxRank; axes after the third have length 1
DenseShapes ==
    UNION {{s \in [1..r -> 0..MaxDim] : \A k \in 1..r : k > 3 => s[k] = 1}
           : r \in 0..MaxRank}

SeriesCell(i, j, len) ==
    [cell |-> "series", v |-> [k \in 1..len |-> i * 100 + j * 10 + k]]

ScalarCell(i, j) == [cell |-> "scalar", v |-> i * 100 + j * 10]

\* a table of n rows and c columns whose cells are series of length t,
\* except the cell at position d.at (if any), which is a scalar or a longer
\* series
DataFrame(n, c, t, d) ==
    [kind |-> "DataFrame", shape |-> <<n, c>>,
     data |-> [i \in 1..n |-> [j \in 1..c |->
                 IF d.at = <<i, j>>
                 THEN IF d.as = "scalar" THEN ScalarCell(i, j)
                      ELSE SeriesCell(i, j, t + 1)
                 ELSE SeriesCell(i, j, t)]]]

NoDefect == [at |-> <<0, 0>>, as |-> "none"]

Defects(n, c) ==
    {NoDefect} \cup
    {[at |-> <<i, j>>, as |-> k] :
        i \in 1..n, j \in 1..c, k \in {"scalar", "longer"}}

Tables ==
    UNION {{DataFrame(n, c, t, d) : d \in Defects(n, c)}
           : n \in 0..MaxDim, c \in 0..MaxDim, t \in 0..MaxDim}

\* a plain list of m labels
PyList(m, off) == [kind |-> "list", data |-> [i \in 1..m |-> (i + off) % 2]]

PySeries(m, off) ==
    [kind |-> "Series", shape |-> <<m>>, index |-> [i \in 1..m |-> i - 1],
     data |-> [i \in 1..m |-> (i + off) % 2]]

Array1D(m, off) ==
    [kind |-> "ndarray", shape |-> <<m>>, data |-> [i \in 1..m |-> (i + off) % 2]]

Lists == {PyList(m, off) : m \in 0..MaxDim, off \in {0, 1}}

XInputs == {NdArray(s) : s \in DenseShapes} \cup Tables \cup Lists

YInputs ==
    {PySeries(m, off) : m \in 0..MaxDim, off \in {0, 1}}
    \cup {Array1D(m, off) : m \in 0..MaxDim, off \in {0, 1}}
    \cup {NdArray(<<>>)} \cup {NdArray(<<m, 1>>) : m \in 0..MaxDim}
    \cup Lists

MinOpts == -1..MaxDim

\* what an undefined conversion does: see nested_to_3d_numpy
ConvChoices == {"raise", "truncate"}

None == [kind |-> "None"]

\* --------------------------------------------------------------- results
Raise(site, steps) ==
    [ok |-> FALSE, err |-> site, value |-> None, steps |-> steps]

Return(value, steps) ==
    [ok |-> TRUE, err |-> "none", value |-> value, steps |-> steps]

\* the error taxonomy: which kind of error each raise of the module is
ErrorClass(site) ==
    CASE site = "type" -> "InvalidTypeError"
      [] site \in {"rank", "min_columns", "univariate", "min_instances"}
              -> "InvalidShapeError"
      [] site = "nested" -> "InvalidStructureError"
      [] site = "consistent_length" -> "InconsistentLengthError"
      [] OTHER -> site

\* ---------------------------------------------------------- collaborators
hasattr_shape(x) == x.kind \in {"ndarray", "DataFrame", "Series"}

\* np.asarray of a flat list
asarray(x) ==
    IF x.kind = "list"
    THEN [kind |-> "ndarray", shape |-> <<Len(x.data)>>, data |-> x.data]
    ELSE x

ndim(x) == Len(x.shape)

\* true iff every cell of the table holds a series, not a scalar
is_nested_dataframe(df) ==
    \A i \in 1..df.shape[1] : \A j \in 1..df.shape[2] :
        df.data[i][j].cell = "series"

CellLengths(df) ==
    {Len(df.data[i][j].v) : i \in 1..df.shape[1], j \in 1..df.shape[2]}

SetMin(S) == CHOOSE m \in S : \A k \in S : m <= k

\* the conversion is defined on a table whose cells all have one length t
ConversionDefined(df) == Cardinality(CellLengths(df)) = 1

\* the dense (instance, variable, timepoint) array of a nested table. On a
\* table without cells or with cells of different lengths the result is
\* not defined: it then either fails or cuts every cell to the shortest,
\* as u says.
nested_to_3d_numpy(df, u) ==
    LET lens == CellLengths(df)
        t == IF lens = {} THEN 0 ELSE SetMin(lens)
    IN  IF ~ConversionDefined(df) /\ u = "raise" THEN None
        ELSE [kind |-> "ndarray",
              shape |-> <<df.shape[1], df.shape[2], t>>,
              data |-> [i \in 1..df.shape[1] |-> [j \in 1..df.shape[2] |->
                          SubSeq(df.data[i][j].v, 1, t)]]]

\* pd.Series.to_numpy: the values without the index
to_numpy(s) == [kind |-> "ndarray", shape |-> s.shape, data |-> s.data]

\* sklearn's number of samples of an array-like with a leading axis
num_samples(x) == asarray(x).shape[1]

\* sklearn's check_consistent_length on two array-likes: "none", or the
\* error it raises (a TypeError on an array of rank 0)
check_consistent_length(a, b) ==
    IF Len(asarray(a).shape) = 0 \/ Len(asarray(b).shape) = 0
    THEN "TypeError"
    ELSE IF num_samples(a) # num_samples(b) THEN "consistent_length"
    ELSE "none"

\* ------------------------------------------------------------ the module
\* the helper with <= for <
enforce_min_instances_le(x, min_instances) ==
    LET arr == IF hasattr_shape(x) THEN x ELSE asarray(x)
    IN  IF Len(arr.shape) = 0 THEN "IndexError"
        ELSE LET n_instances == arr.shape[1]
             IN  IF min_instances > 0 /\ n_instances <= min_instances
                 THEN "min_instances"
                 ELSE "none"

\* "none", or the error it raises
_enforce_min_instances(x, min_instances) ==
    LET arr == IF hasattr_shape(x) THEN x ELSE asarray(x)
    IN  IF Len(arr.shape) = 0 THEN "IndexError"
        ELSE LET n_instances == arr.shape[1]
             IN  IF min_instances > 0 /\ n_instances < min_instances
                 THEN "min_instances"
                 ELSE "none"

\* the rank test that lets arrays of a higher rank through
wrong_rank_lt(X_) == ndim(X_) < 3

\* "if not X.ndim == 3"
wrong_rank(X_) == ndim(X_) # 3

\* the column test with <= for <
too_few_columns_le(n_columns, enforce_min_columns) ==
    n_columns <= enforce_min_columns

\* "if n_columns < enforce_min_columns"
too_few_columns(n_columns, enforce_min_columns) ==
    n_columns < enforce_min_columns

\* "if n_columns > 1"
not_univariate(n_columns) == n_columns > 1

\* the last step without the conversion
convert_X_never(X_, return_numpy, u, steps) == Return(X_, steps)

\* "if return_numpy: X = nested_to_3d_numpy(X)" and the return
convert_X(X_, return_numpy, u, steps) ==
    IF return_numpy
    THEN LET conv == nested_to_3d_numpy(X_, u)
         IN  IF conv = None THEN Raise("convert", steps \o <<"convert">>)
             ELSE Return(conv, steps \o <<"convert">>)
    ELSE Return(X_, steps)

\* check_X with the instance count checked before the univariate test
check_X_swapped(X_, return_numpy, enforce_univariate, enforce_min_instances_, enforce_min_columns, u) ==
    IF X_.kind \notin {"DataFrame", "ndarray"}
    THEN Raise("type", <<"type">>)
    ELSE IF X_.kind = "ndarray" /\ wrong_rank(X_)
    THEN Raise("rank", <<"type", "rank">>)
    ELSE
    LET s1 == <<"type">> \o (IF X_.kind = "ndarray" THEN <<"rank">> ELSE <<>>)
                  \o <<"shape">>
        n_columns == X_.shape[2]
        s2 == s1 \o <<"min_columns">>
        s3 == s2 \o (IF enforce_min_instances_ > 0
                     THEN <<"min_instances">> ELSE <<>>)
        e3 == IF enforce_min_instances_ > 0
              THEN _enforce_min_instances(X_, enforce_min_instances_)
              ELSE "none"
        s4 == s3 \o (IF enforce_univariate THEN <<"univariate">> ELSE <<>>)
        s5 == s4 \o (IF X_.kind = "DataFrame" THEN <<"nested">> ELSE <<>>)
    IN  IF too_few_columns(n_columns, enforce_min_columns)
        THEN Raise("min_columns", s2)
        ELSE IF e3 # "none" THEN Raise(e3, s3)
        ELSE IF enforce_univariate /\ not_univariate(n_columns)
        THEN Raise("univariate", s4)
        ELSE IF X_.kind = "DataFrame"
        THEN IF ~is_nested_dataframe(X_) THEN Raise("nested", s5)
             ELSE convert_X(X_, return_numpy, u, s5)
        ELSE Return(X_, s5)

check_X(X_, return_numpy, enforce_univariate, enforce_min_instances_, enforce_min_columns, u) ==
    IF X_.kind \notin {"DataFrame", "ndarray"}
    THEN Raise("type", <<"type">>)
    ELSE IF X_.kind = "ndarray" /\ wrong_rank(X_)
    THEN Raise("rank", <<"type", "rank">>)
    ELSE
    LET s1 == <<"type">> \o (IF X_.kind = "ndarray" THEN <<"rank">> ELSE <<>>)
                  \o <<"shape">>
        n_columns == X_.shape[2]
        s2 == s1 \o <<"min_columns">>
        s3 == s2 \o (IF enforce_univariate THEN <<"univariate">> ELSE <<>>)
        s4 == s3 \o (IF enforce_min_instances_ > 0
                     THEN <<"min_instances">> ELSE <<>>)
        e4 == IF enforce_min_instances_ > 0
              THEN _enforce_min_instances(X_, enforce_min_instances_)
              ELSE "none"
        s5 == s4 \o (IF X_.kind = "DataFrame" THEN <<"nested">> ELSE <<>>)
    IN  IF too_few_columns(n_columns, enforce_min_columns)
        THEN Raise("min_columns", s2)
        ELSE IF enforce_univariate /\ not_univariate(n_columns)
        THEN Raise("univariate", s3)
        ELSE IF e4 # "none" THEN Raise(e4, s4)
        ELSE IF X_.kind = "DataFrame"
        THEN IF ~is_nested_dataframe(X_) THEN Raise("nested", s5)
             ELSE convert_X(X_, return_numpy, u, s5)
        ELSE Return(X_, s5)

\* check_y that never converts
check_y_never(y_, enforce_min_instances_, return_numpy) ==
    IF y_.kind \notin {"Series", "ndarray"}
    THEN Raise("type", <<"y_type">>)
    ELSE
    LET s1 == <<"y_type">> \o (IF enforce_min_instances_ > 0
                               THEN <<"y_min_instances">> ELSE <<>>)
        e1 == IF enforce_min_instances_ > 0
              THEN _enforce_min_instances(y_, enforce_min_instances_)
              ELSE "none"
    IN  IF e1 # "none" THEN Raise(e1, s1) ELSE Return(y_, s1)

check_y(y_, enforce_min_instances_, return_numpy) ==
    IF y_.kind \notin {"Series", "ndarray"}
    THEN Raise("type", <<"y_type">>)
    ELSE
    LET s1 == <<"y_type">> \o (IF enforce_min_instances_ > 0
                               THEN <<"y_min_instances">> ELSE <<>>)
        e1 == IF enforce_min_instances_ > 0
              THEN _enforce_min_instances(y_, enforce_min_instances_)
              ELSE "none"
    IN  IF e1 # "none" THEN Raise(e1, s1)
        ELSE IF return_numpy /\ y_.kind = "Series"
        THEN Return(to_numpy(y_), s1 \o <<"y_convert">>)
        ELSE Return(y_, s1)

\* the pair check, parametrised by what a variant of it changes:
\* the minimum handed to check_y, whether check_y converts, and whether the
\* lengths are compared
PairCheck(X_, y_, enforce_univariate, enforce_min_instances_, enforce_min_columns, u, y_min, y_numpy, compare) ==
    LET rX == check_X(X_, FALSE, enforce_univariate, enforce_min_instances_,
                      enforce_min_columns, u)
        rY == check_y(y_, y_min, y_numpy)
        s2 == rX.steps \o rY.steps
        s3 == s2 \o (IF compare THEN <<"consistent_length">> ELSE <<>>)
    IN  IF ~rX.ok THEN rX
        ELSE IF ~rY.ok THEN Raise(rY.err, s2)
        ELSE IF compare /\ check_consistent_length(rX.value, rY.value) # "none"
        THEN Raise(check_consistent_length(rX.value, rY.value), s3)
        ELSE Return([kind |-> "tuple", X |-> rX.value, y |-> rY.value], s3)

\* check_X_y without the comparison of the lengths
check_X_y_nocompare(X_, y_, enforce_univariate, enforce_min_instances_, enforce_min_columns, u) ==
    PairCheck(X_, y_, enforce_univariate, enforce_min_instances_,
              enforce_min_columns, u, 1, FALSE, FALSE)

\* check_X_y that asks check_y for a dense y
check_X_y_numpy(X_, y_, enforce_univariate, enforce_min_instances_, enforce_min_columns, u) ==
    PairCheck(X_, y_, enforce_univariate, enforce_min_instances_,
              enforce_min_columns, u, 1, TRUE, TRUE)

\* check_X_y that forwards enforce_min_instances to check_y too
check_X_y_forward(X_, y_, enforce_univariate, enforce_min_instances_, enforce_min_columns, u) ==
    PairCheck(X_, y_, enforce_univariate, enforce_min_instances_,
              enforce_min_columns, u, enforce_min_instances_, FALSE, TRUE)

check_X_y(X_, y_, enforce_univariate, enforce_min_instances_, enforce_min_columns, u) ==
    LET rX == check_X(X_, FALSE, enforce_univariate, enforce_min_instances_,
                      enforce_min_columns, u)
        rY == check_y(y_, 1, FALSE)
        s2 == rX.steps \o rY.steps
        s3 == s2 \o <<"consistent_length">>
    IN  IF ~rX.ok THEN rX
        ELSE IF ~rY.ok THEN Raise(rY.err, s2)
        ELSE IF check_consistent_length(rX.value, rY.value) # "none"
        THEN Raise(check_consistent_length(rX.value, rY.value), s3)
        ELSE Return([kind |-> "tuple", X |-> rX.value, y |-> rY.value], s3)

\* ----------------------------------------------------------- the callers
NoOpts ==
    [return_numpy |-> FALSE, enforce_univariate |-> FALSE,
     enforce_min_instances |-> 1, enforce_min_columns |-> 1]

Init ==
    /\ pc = "idle"
    /\ fn = "none"
    /\ X = None
    /\ y = None
    /\ opts = NoOpts
    /\ result = Return(None, <<>>)

\* a caller validates a feature collection
CallCheckX ==
    /\ pc = "idle"
    /\ \E X_ \in XInputs, rn \in BOOLEAN, eu \in BOOLEAN,
          mi \in MinOpts, mc \in MinOpts, u \in ConvChoices :
          /\ X' = X_
          /\ opts' = [return_numpy |-> rn, enforce_univariate |-> eu,
                      enforce_min_instances |-> mi, enforce_min_columns |-> mc]
          /\ result' = check_X(X_, rn, eu, mi, mc, u)
    /\ fn' = "check_X"
    /\ pc' = "done"
    /\ y' = None

\* a caller validates a target collection
CallCheckY ==
    /\ pc = "idle"
    /\ \E y_ \in YInputs, rn \in BOOLEAN, mi \in MinOpts :
          /\ y' = y_
          /\ opts' = [NoOpts EXCEPT !.return_numpy = rn,
                                    !.enforce_min_instances = mi]
          /\ result' = check_y(y_, mi, rn)
    /\ fn' = "check_y"
    /\ pc' = "done"
    /\ X' = None

\* a caller validates a pair
CallCheckXY ==
    /\ pc = "idle"
    /\ \E X_ \in XInputs, y_ \in YInputs, eu \in BOOLEAN,
          mi \in MinOpts, mc \in MinOpts, u \in ConvChoices :
          /\ X' = X_
          /\ y' = y_
          /\ opts' = [return_numpy |-> FALSE, enforce_univariate |-> eu,
                      enforce_min_instances |-> mi, enforce_min_columns |-> mc]
          /\ result' = check_X_y(X_, y_, eu, mi, mc, u)
    /\ fn' = "check_X_y"
    /\ pc' = "done"

\* the helper called on its own
CallEnforceMinInstances ==
    /\ pc = "idle"
    /\ \E x \in XInputs \cup YInputs, mi \in MinOpts :
          /\ X' = x
          /\ opts' = [NoOpts EXCEPT !.enforce_min_instances = mi]
          /\ result' = LET e == _enforce_min_instances(x, mi)
                       IN  IF e = "none" THEN Return(None, <<"min_instances">>)
                           ELSE Raise(e, <<"min_instances">>)
    /\ fn' = "_enforce_min_instances"
    /\ pc' = "done"
    /\ y' = None

\* the call is over; the caller may call again
Finish ==
    /\ pc = "done"
    /\ pc' = "idle"
    /\ fn' = "none"
    /\ X' = None
    /\ y' = None
    /\ opts' = NoOpts
    /\ result' = Return(None, <<>>)

Next ==
    \/ CallCheckX
    \/ CallCheckY
    \/ CallCheckXY
    \/ CallEnforceMinInstances
    \/ Finish

Spec == Init /\ [][Next]_vars

\* ------------------------------------------------------------- the claims
Called(f) == pc = "done" /\ fn = f

\* the value has a leading axis, or is a list
HasEntries(x) ==
    \/ x.kind = "list"
    \/ x.kind \in {"ndarray", "DataFrame", "Series"} /\ Len(x.shape) >= 1

\* the number of instances of a value that has a leading axis
Entries(x) == IF x.kind = "list" THEN Len(x.data) ELSE x.shape[1]

\* a feature collection: a table, or a dense array of rank 3
IsFeature(x) ==
    \/ x.kind = "DataFrame"
    \/ x.kind = "ndarray" /\ Len(x.shape) = 3

\* a target collection: a flat sequence or a dense array with a leading axis
IsTarget(x) == x.kind \in {"Series", "ndarray"} /\ Len(x.shape) >= 1

Columns(x) == x.shape[2]

AllCellsSeries(x) ==
    \A i \in 1..x.shape[1] : \A j \in 1..x.shape[2] :
        x.data[i][j].cell = "series"

UniformCells(x) ==
    /\ x.shape[1] >= 1 /\ x.shape[2] >= 1
    /\ \A i \in 1..x.shape[1] : \A j \in 1..x.shape[2] :
          Len(x.data[i][j].v) = Len(x.data[1][1].v)

\* the options of the call do not rule the shape of x out
ColumnsPass(x) == Columns(x) >= opts.enforce_min_columns
UnivariatePass(x) == ~(opts.enforce_univariate /\ Columns(x) > 1)
InstancesPass(x) ==
    opts.enforce_min_instances <= 0 \/ Entries(x) >= opts.enforce_min_instances

Contains(seq, e) == \E k \in 1..Len(seq) : seq[k] = e

Failed(class) == ~result.ok /\ ErrorClass(result.err) = class

\* C1 as stated: whenever X has n instances and y has m # n entries,
\* check_X_y fails with InconsistentLengthError, whatever the options
C1_Original ==
    (Called("check_X_y") /\ IsFeature(X) /\ IsTarget(y)
        /\ Entries(X) # Entries(y))
    => Failed("InconsistentLengthError")

\* C1 (amended): whenever X has n instances and y has m # n entries,
\* check_X_y fails; it fails with InconsistentLengthError exactly when X
\* passes check_X under the options of the call and y passes check_y with
\* its defaults, and otherwise with the error of check_X or, when check_X
\* passes, with the error of check_y
C1_LengthMismatchFails ==
    (Called("check_X_y") /\ HasEntries(X) /\ HasEntries(y)
        /\ Entries(X) # Entries(y))
    => LET rX == check_X(X, FALSE, opts.enforce_univariate,
                         opts.enforce_min_instances,
                         opts.enforce_min_columns, "raise")
           rY == check_y(y, 1, FALSE)
       IN  /\ ~result.ok
           /\ result.value = None
           /\ Failed("InconsistentLengthError") <=> (rX.ok /\ rY.ok)
           /\ ~rX.ok => result.err = rX.err
           /\ (rX.ok /\ ~rY.ok) => result.err = rY.err

C1_Witness ==
    /\ Called("check_X_y") /\ IsFeature(X) /\ IsTarget(y)
    /\ Entries(X) = 2 /\ Entries(y) = 1
    /\ Failed("InconsistentLengthError")

\* C2: when X and y have the same number of instances, check_X accepts X
\* under the options of the call and check_y accepts y with its defaults,
\* check_X_y succeeds and returns X and y exactly as given, with equal
\* instance counts
C2_PairReturnedAsGiven ==
    (Called("check_X_y") /\ HasEntries(X) /\ HasEntries(y)
        /\ Entries(X) = Entries(y)
        /\ \A u \in ConvChoices :
              check_X(X, FALSE, opts.enforce_univariate,
                      opts.enforce_min_instances,
                      opts.enforce_min_columns, u).ok
        /\ check_y(y, 1, FALSE).ok)
    => /\ result.ok
       /\ result.value.X = X
       /\ result.value.y = y
       /\ Entries(result.value.X) = Entries(result.value.y)

C2_Witness ==
    /\ Called("check_X_y") /\ result.ok
    /\ X.kind = "DataFrame" /\ y.kind = "Series" /\ Entries(X) = 2
    /\ result.value.X = X /\ result.value.y = y

\* C3: the instance-count check is off when the minimum is 0 or negative:
\* the helper, check_y and check_X then accept a collection of 0 instances
\* that is acceptable otherwise; for a minimum k >= 1 a collection of fewer
\* than k instances fails with InvalidShapeError and one of at least k
\* instances is not rejected by this check
C3_MinInstances ==
    LET k == opts.enforce_min_instances
    IN  /\ (Called("_enforce_min_instances") /\ HasEntries(X))
           => /\ k <= 0 => result.ok
              /\ (k >= 1 /\ Entries(X) < k)
                     => (result.err = "min_instances"
                         /\ Failed("InvalidShapeError"))
              /\ (k >= 1 /\ Entries(X) >= k) => result.ok
        /\ (Called("check_y") /\ IsTarget(y))
           => /\ k <= 0 => (result.ok /\ ~Contains(result.steps, "y_min_instances"))
              /\ (k >= 1 /\ Entries(y) < k)
                     => (result.err = "min_instances"
                         /\ Failed("InvalidShapeError"))
              /\ (k >= 1 /\ Entries(y) >= k) => result.ok
        /\ (Called("check_X") /\ IsFeature(X))
           => /\ k <= 0 => /\ result.err # "min_instances"
                           /\ ~Contains(result.steps, "min_instances")
              /\ (k <= 0 /\ Entries(X) = 0 /\ ColumnsPass(X)
                    /\ UnivariatePass(X)
                    /\ (X.kind = "DataFrame" =>
                           AllCellsSeries(X) /\ ~opts.return_numpy))
                     => (result.ok /\ result.value = X)
              /\ (k >= 1 /\ Entries(X) < k) => Failed("InvalidShapeError")
              /\ (k >= 1 /\ Entries(X) < k /\ ColumnsPass(X)
                    /\ UnivariatePass(X)) => result.err = "min_instances"
              /\ (k >= 1 /\ Entries(X) >= k) => result.err # "min_instances"

C3_Witness ==
    /\ Called("check_X") /\ X.kind = "DataFrame"
    /\ Entries(X) = 0 /\ Columns(X) = 1
    /\ opts.enforce_min_instances = 0
    /\ result.ok

\* C4 as stated, on dense input: for a rank-3 array X that passes the
\* instance-count check, check_X with enforce_univariate succeeds if and
\* only if X has exactly one column, also when enforce_min_columns is 0
\* (a minimum above 1 is left out: it rejects a single column by itself)
C4_UnivariateIffOneColumn ==
    (Called("check_X") /\ X.kind = "ndarray" /\ Len(X.shape) = 3
        /\ opts.enforce_univariate
        /\ opts.enforce_min_columns <= 1
        /\ InstancesPass(X))
    => (result.ok <=> Columns(X) = 1)

\* C5: a dense array whose rank is not 3 fails with InvalidShapeError under
\* every choice of the options, and the rank check fires before any
\* dimension of X is read
C5_RankNot3Fails ==
    (Called("check_X") /\ X.kind = "ndarray" /\ Len(X.shape) # 3)
    => /\ Failed("InvalidShapeError")
       /\ result.err = "rank"
       /\ result.steps = <<"type", "rank">>
       /\ ~Contains(result.steps, "shape")

C5_Witness ==
    /\ Called("check_X") /\ X.kind = "ndarray" /\ Len(X.shape) = 4
    /\ opts.return_numpy /\ opts.enforce_min_columns = 0
    /\ result.err = "rank"

\* C6: a nested table with fewer than enforce_min_columns columns fails
\* with InvalidShapeError (raised by the column check); with at least that
\* many columns a table that is valid for the call (nested, enough
\* instances, univariate if asked, convertible if asked) succeeds
C6_MinColumns ==
    (Called("check_X") /\ X.kind = "DataFrame")
    => /\ Columns(X) < opts.enforce_min_columns
             => (result.err = "min_columns" /\ Failed("InvalidShapeError"))
       /\ (Columns(X) >= opts.enforce_min_columns /\ AllCellsSeries(X)
             /\ UnivariatePass(X) /\ InstancesPass(X)
             /\ (opts.return_numpy => UniformCells(X)))
             => result.ok

C6_Witness ==
    /\ Called("check_X") /\ X.kind = "DataFrame" /\ AllCellsSeries(X)
    /\ Columns(X) = 2 /\ opts.enforce_min_columns = 2 /\ Entries(X) = 1
    /\ result.ok

\* C7: check_X with return_numpy on a valid nested table of shape (n, c)
\* with cells of one length t returns the dense array of shape (n, c, t)
\* that holds the cells' values, and the caller's table is still the
\* table; check_X with return_numpy on that array returns an equal array;
\* a dense rank-3 input is returned as given and neither the nested
\* predicate nor the conversion runs on it
C7_ConvertIdempotent ==
    /\ (Called("check_X") /\ X.kind = "DataFrame" /\ opts.return_numpy
          /\ AllCellsSeries(X) /\ UniformCells(X)
          /\ ColumnsPass(X) /\ UnivariatePass(X) /\ InstancesPass(X))
       => /\ result.ok
          /\ result.value.kind = "ndarray"
          /\ result.value.shape
                = <<Entries(X), Columns(X), Len(X.data[1][1].v)>>
          /\ result.value = NdArray(result.value.shape)
          /\ X \in Tables
          /\ \A u \in ConvChoices :
                LET again == check_X(result.value, TRUE,
                                     opts.enforce_univariate,
                                     opts.enforce_min_instances,
                                     opts.enforce_min_columns, u)
                IN  /\ again.ok
                    /\ again.value = result.value
                    /\ ~Contains(again.steps, "nested")
                    /\ ~Contains(again.steps, "convert")
    /\ (Called("check_X") /\ X.kind = "ndarray" /\ result.ok)
       => /\ result.value = X
          /\ ~Contains(result.steps, "nested")
          /\ ~Contains(result.steps, "convert")

C7_Witness ==
    /\ Called("check_X") /\ X.kind = "DataFrame" /\ opts.return_numpy
    /\ result.ok
    /\ result.value.kind = "ndarray" /\ result.value.shape = <<2, 2, 2>>

\* the same values in the other representation
Twin(t) ==
    IF t.kind = "Series"
    THEN [kind |-> "ndarray", shape |-> t.shape, data |-> t.data]
    ELSE [kind |-> "Series", shape |-> t.shape,
          index |-> [i \in 1..Len(t.data) |-> i - 1], data |-> t.data]

\* C8: check_y with return_numpy returns the same dense array of length n
\* for a flat sequence of length n and for a dense 1D array of the same n
\* values; without return_numpy it returns y as given
C8_TargetInterchangeable ==
    (Called("check_y") /\ IsTarget(y) /\ Len(y.shape) = 1 /\ result.ok)
    => /\ opts.return_numpy
             => /\ result.value
                     = [kind |-> "ndarray", shape |-> <<Entries(y)>>,
                        data |-> y.data]
                /\ check_y(Twin(y), opts.enforce_min_instances, TRUE).ok
                /\ check_y(Twin(y), opts.enforce_min_instances, TRUE).value
                     = result.value
       /\ ~opts.return_numpy => result.value = y

C8_Witness ==
    /\ Called("check_y") /\ y.kind = "Series" /\ Entries(y) = 2
    /\ opts.return_numpy /\ result.ok /\ result.value.kind = "ndarray"

\* the checks of check_X in their order
CheckOrder ==
    <<"type", "rank", "shape", "min_columns", "univariate", "min_instances",
      "nested", "convert">>

Position(e) == CHOOSE k \in 1..Len(CheckOrder) : CheckOrder[k] = e

\* the first check, in the order above, that X violates under the options
\* of the call ("none" when it violates none)
FirstViolated ==
    IF X.kind \notin {"DataFrame", "ndarray"} THEN "type"
    ELSE IF X.kind = "ndarray" /\ Len(X.shape) # 3 THEN "rank"
    ELSE IF Columns(X) < opts.enforce_min_columns THEN "min_columns"
    ELSE IF opts.enforce_univariate /\ Columns(X) > 1 THEN "univariate"
    ELSE IF opts.enforce_min_instances > 0
            /\ Entries(X) < opts.enforce_min_instances THEN "min_instances"
    ELSE IF X.kind = "DataFrame" /\ ~AllCellsSeries(X) THEN "nested"
    ELSE "none"

\* C9: check_X runs its checks in the order type, rank (dense only),
\* minimum columns, univariate, minimum instances, nested predicate (table
\* only), conversion; the error of a call is that of the first check in
\* this order that the input violates, and nothing runs after a failure
C9_CheckOrder ==
    Called("check_X")
    => /\ \A a, b \in 1..Len(result.steps) :
             a < b => Position(result.steps[a]) < Position(result.steps[b])
       /\ FirstViolated # "none"
             => /\ ~result.ok
                /\ result.err = FirstViolated
                /\ result.steps[Len(result.steps)] = FirstViolated
                /\ result.value = None
       /\ FirstViolated = "none"
             => (result.ok \/ (result.err = "convert"
                               /\ result.steps[Len(result.steps)] = "convert"))
       /\ (X.kind = "ndarray" /\ Len(X.shape) = 3 /\ Entries(X) = 0
             /\ Columns(X) = 2 /\ opts.enforce_univariate
             /\ opts.enforce_min_columns <= 2)
             => (result.err = "univariate"
                 /\ ~Contains(result.steps, "min_instances"))
       /\ (X.kind = "DataFrame" /\ ~AllCellsSeries(X) /\ ColumnsPass(X)
             /\ UnivariatePass(X) /\ ~InstancesPass(X))
             => (Failed("InvalidShapeError")
                 /\ ~Contains(result.steps, "nested"))

C9_Witness ==
    /\ Called("check_X") /\ X.kind = "ndarray" /\ X.shape = <<0, 2, 1>>
    /\ opts.enforce_univariate /\ opts.enforce_min_instances = 1
    /\ opts.enforce_min_columns = 1
    /\ result.err = "univariate"

====
